---- MODULE Spec2Model ----
(***************************************************************************)
(* A model of the match engine of ml_simulator_app.py: the rating          *)
(* computation, the tactical bonuses, the expected-goals formula, one      *)
(* simulated fixture, the series loop of simulate_series and the part of   *)
(* main that validates the rosters, runs the series and lists the five     *)
(* most frequent scorelines.                                               *)
(*                                                                         *)
(* Numbers.  The program computes in binary floating point; the model      *)
(* computes the same expressions exactly, as fractions.  Every skill and   *)
(* team stat is an integer 0..100 (st.number_input with integer bounds).   *)
(* One rating point is Unit, and a rating of a team of n players is the    *)
(* record [num, den] standing for num / (den * Unit) with den = max(1, n): *)
(* the coefficients are hundredths, the position factors 1.05 and 0.97     *)
(* are hundredths again, and the weight 0.15 of the raw sums is 3/20, so   *)
(* every rating times den is a whole number of 1/Unit.                     *)
(***************************************************************************)
EXTENDS Integers, Sequences, FiniteSets

Unit == 20 * 100 * 100

Max(a, b) == IF a >= b THEN a ELSE b

RECURSIVE Gcd(_, _)
Gcd(a, b) == IF b = 0 THEN a ELSE Gcd(b, a % b)

Lcm(a, b) == (a * b) \div Gcd(a, b)

(* The element of a one-element set: { f(v) : v \in {e} } evaluates e once  *)
(* and names its value v.                                                  *)
Only(S) == CHOOSE x \in S : TRUE

RECURSIVE SumSeq(_)
SumSeq(s) == IF s = <<>> THEN 0 ELSE Head(s) + SumSeq(Tail(s))

(***************************************************************************)
(* Strings.  str.lower() on the tokens the model uses: the lower-case      *)
(* tokens of the select boxes, and capitalised spellings of them, which    *)
(* the functions accept because they lower-case their arguments.           *)
(***************************************************************************)
Lower(s) ==
    CASE s = "Mixed" -> "mixed"
      [] s = "Continental" -> "continental"
      [] s = "Longballs" -> "longballs"
      [] s = "Normal" -> "normal"
      [] s = "Attacking" -> "attacking"
      [] s = "Defending" -> "defending"
      [] s = "Counter-Attacking" -> "counter-attacking"
      [] OTHER -> s

(***************************************************************************)
(* Tactical bonuses.  Values are in Unit (2.0 is 2 * Unit).                *)
(***************************************************************************)
FORMATION_MATCHUPS ==
    { <<"4-4-2", "3-5-2", Unit>>,
      <<"3-5-2", "4-4-2", -Unit>>,
      <<"4-5-1", "3-4-3", Unit>>,
      <<"3-4-3", "4-5-1", -Unit>>,
      <<"4-4-2", "4-3-3", -(Unit \div 2)>>,
      <<"4-3-3", "4-4-2", Unit \div 2>> }

(* style_match_bonus without its last -2.0 branch (longballs against       *)
(* mixed falls through to 0.0).                                            *)
style_match_bonus_missing_branch(my_style, opp_style) ==
    LET my == Lower(my_style)
        op == Lower(opp_style)
    IN  IF my = op THEN 0
        ELSE IF my = "longballs" /\ op = "continental" THEN 2 * Unit
        ELSE IF my = "continental" /\ op = "mixed" THEN 2 * Unit
        ELSE IF my = "mixed" /\ op = "longballs" THEN 2 * Unit
        ELSE IF op = "longballs" /\ my = "continental" THEN -2 * Unit
        ELSE IF op = "continental" /\ my = "mixed" THEN -2 * Unit
        ELSE 0

style_match_bonus(my_style, opp_style) ==
    LET my == Lower(my_style)
        op == Lower(opp_style)
    IN  IF my = op THEN 0
        ELSE IF my = "longballs" /\ op = "continental" THEN 2 * Unit
        ELSE IF my = "continental" /\ op = "mixed" THEN 2 * Unit
        ELSE IF my = "mixed" /\ op = "longballs" THEN 2 * Unit
        ELSE IF op = "longballs" /\ my = "continental" THEN -2 * Unit
        ELSE IF op = "continental" /\ my = "mixed" THEN -2 * Unit
        ELSE IF op = "mixed" /\ my = "longballs" THEN -2 * Unit
        ELSE 0

(* formation_match_bonus over a table that lost its negative entries. *)
formation_match_bonus_one_sided(my_form, opp_form) ==
    LET hits == { e \in FORMATION_MATCHUPS :
                    e[1] = my_form /\ e[2] = opp_form /\ e[3] > 0 }
    IN  IF hits = {} THEN 0 ELSE (CHOOSE e \in hits : TRUE)[3]

formation_match_bonus(my_form, opp_form) ==
    LET hits == { e \in FORMATION_MATCHUPS : e[1] = my_form /\ e[2] = opp_form }
    IN  IF hits = {} THEN 0 ELSE (CHOOSE e \in hits : TRUE)[3]

(***************************************************************************)
(* A player is a record of role, position and the ten skills; a team a     *)
(* record of players, formation, style, pressure, stats and home (name     *)
(* and age take no part in the engine).                                    *)
(***************************************************************************)
average_q(team) ==
    [num |-> SumSeq([i \in 1..Len(team.players) |-> team.players[i].q]) * Unit,
     den |-> Max(1, Len(team.players))]

(* role_base with a goalkeeper that adds nothing to attack. *)
role_base_gk_silent(p) ==
    IF p.role = "Att" THEN
        [atk |-> 35 * p.sh + 25 * p.pa + 10 * p.kp + 15 * p.sp + 5 * p.he + 10 * p.q,
         deff |-> 15 * p.tk + 10 * p.bc + 5 * p.st]
    ELSE IF p.role = "Mid" THEN
        [atk |-> 25 * p.sh + 30 * p.pa + 15 * p.kp + 10 * p.sp + 5 * p.he + 5 * p.q,
         deff |-> 25 * p.tk + 10 * p.bc + 5 * p.st]
    ELSE IF p.role = "Def" THEN
        [atk |-> 5 * p.pa + 5 * p.he,
         deff |-> 35 * p.tk + 20 * p.he + 15 * p.st + 15 * p.bc + 5 * p.q]
    ELSE
        [atk |-> 0,
         deff |-> 40 * p.q + 15 * p.bc + 10 * p.st]

(* The role sums of compute_line_ratings, in hundredths of a point. *)
role_base(p) ==
    IF p.role = "Att" THEN
        [atk |-> 35 * p.sh + 25 * p.pa + 10 * p.kp + 15 * p.sp + 5 * p.he + 10 * p.q,
         deff |-> 15 * p.tk + 10 * p.bc + 5 * p.st]
    ELSE IF p.role = "Mid" THEN
        [atk |-> 25 * p.sh + 30 * p.pa + 15 * p.kp + 10 * p.sp + 5 * p.he + 5 * p.q,
         deff |-> 25 * p.tk + 10 * p.bc + 5 * p.st]
    ELSE IF p.role = "Def" THEN
        [atk |-> 5 * p.pa + 5 * p.he,
         deff |-> 35 * p.tk + 20 * p.he + 15 * p.st + 15 * p.bc + 5 * p.q]
    ELSE
        [atk |-> 2 * p.pa,
         deff |-> 40 * p.q + 15 * p.bc + 10 * p.st]

(* str.upper() on the position labels: those of POS_BY_ROLE and of the     *)
(* position test are upper case already; lower-case spellings map to them. *)
Upper(s) ==
    CASE s = "dc" -> "DC"
      [] s = "dl" -> "DL"
      [] s = "mr" -> "MR"
      [] OTHER -> s

(* One player's atk and deff after the position adjustment, in 1/10000 of  *)
(* a point: the role sum times 1.05, 0.97 or 1.00, plus the position's     *)
(* extra terms.                                                            *)
player_contribution(p) ==
    LET b == role_base(p)
        pos == Upper(p.position)
    IN  IF pos \in {"DL", "DR"} THEN
            [atk |-> b.atk * 105 + (5 * p.sp + 5 * p.pa) * 100,
             deff |-> b.deff * 97]
        ELSE IF pos \in {"DC", "DCL", "DCR"} THEN
            [atk |-> b.atk * 100,
             deff |-> b.deff * 105 + (5 * p.tk + 5 * p.he) * 100]
        ELSE IF pos \in {"ML", "MR", "AML", "AMR", "STL", "STR"} THEN
            [atk |-> b.atk * 105 + (5 * p.sp + 5 * p.sh) * 100,
             deff |-> b.deff * 100]
        ELSE
            [atk |-> b.atk * 100, deff |-> b.deff * 100]

(* atk_raw and def_raw summed over the roster, in 1/10000 of a point; the  *)
(* division by len(team.players) is carried by the rating's den.           *)
raw_sums(team) ==
    [atk |-> SumSeq([i \in 1..Len(team.players) |->
                        player_contribution(team.players[i]).atk]),
     deff |-> SumSeq([i \in 1..Len(team.players) |->
                        player_contribution(team.players[i]).deff])]

(* atk_mod * 5 and def_mod * 5 in 1/Unit: a weight w/100 on (s - 50)/50,   *)
(* times 5, is w * (s - 50) / 1000.                                        *)
stat_mods(s) ==
    [atk |-> (6 * (s.attacking - 50) + 3 * (s.teamplay - 50)
              + 3 * (s.understanding - 50) + 2 * (s.counter_attacking - 50)
              + (s.free_kick - 50) + (s.corner - 50)) * (Unit \div 1000),
     deff |-> (6 * (s.defending - 50) + 3 * (s.offside - 50)) * (Unit \div 1000)]

(* home_bonus with home_def left at 0.0. *)
home_bonus_attack_only(team) ==
    [atk |-> IF team.home THEN Unit \div 2 ELSE 0,
     deff |-> 0]

home_bonus(team) ==
    [atk |-> IF team.home THEN Unit \div 2 ELSE 0,
     deff |-> IF team.home THEN Unit \div 2 ELSE 0]

(* pressure_adjust comparing with "counterattacking", a token no select    *)
(* box offers.                                                             *)
pressure_adjust_unhyphenated(team) ==
    LET p_press == Lower(team.pressure)
    IN  IF p_press = "attacking" THEN [atk |-> Unit, deff |-> -(Unit \div 2)]
        ELSE IF p_press = "defending" THEN [atk |-> -(Unit \div 2), deff |-> Unit]
        ELSE IF p_press = "counterattacking" THEN
            [atk |-> (team.stats.counter_attacking - 50) * (Unit \div 100),
             deff |-> Unit \div 5]
        ELSE [atk |-> 0, deff |-> 0]

(* The pressure branch: 0.5 * ((counter_attacking - 50) / 50) is           *)
(* (counter_attacking - 50) / 100.                                         *)
pressure_adjust(team) ==
    LET p_press == Lower(team.pressure)
    IN  IF p_press = "attacking" THEN [atk |-> Unit, deff |-> -(Unit \div 2)]
        ELSE IF p_press = "defending" THEN [atk |-> -(Unit \div 2), deff |-> Unit]
        ELSE IF p_press = "counter-attacking" THEN
            [atk |-> (team.stats.counter_attacking - 50) * (Unit \div 100),
             deff |-> Unit \div 5]
        ELSE [atk |-> 0, deff |-> 0]

(* (attack_rating, defense_rating) as atk / (den * Unit), deff / (den *    *)
(* Unit): base_q + raw * 0.15 + mod * 5 + home, then the pressure.  With   *)
(* an empty roster the raw sums stay 0 undivided and average_q divides by  *)
(* max(1, 0).                                                              *)
compute_line_ratings(team) ==
    LET base_q == average_q(team)
        raw == raw_sums(team)
        den == base_q.den
        mods == stat_mods(team.stats)
        home == home_bonus(team)
        press == pressure_adjust(team)
    IN  [atk |-> base_q.num + raw.atk * 3 + den * (mods.atk + home.atk + press.atk),
         deff |-> base_q.num + raw.deff * 3 + den * (mods.deff + home.deff + press.deff),
         den |-> den]

(* (atk_a, def_a, atk_b, def_b) with the style and formation bonuses: the  *)
(* whole bonus on attack, 0.3 of it on defense.                            *)
compute_effective_strengths(team_a, team_b) ==
    LET style_bonus_a == style_match_bonus(team_a.style, team_b.style)
        style_bonus_b == style_match_bonus(team_b.style, team_a.style)
        form_bonus_a == formation_match_bonus(team_a.formation, team_b.formation)
        form_bonus_b == formation_match_bonus(team_b.formation, team_a.formation)
    IN  Only({ [atk_a |-> a.atk + a.den * (style_bonus_a + form_bonus_a),
                def_a |-> a.deff + a.den * (((style_bonus_a + form_bonus_a) * 3) \div 10),
                den_a |-> a.den,
                atk_b |-> b.atk + b.den * (style_bonus_b + form_bonus_b),
                def_b |-> b.deff + b.den * (((style_bonus_b + form_bonus_b) * 3) \div 10),
                den_b |-> b.den,
                style_bonus_a |-> style_bonus_a, style_bonus_b |-> style_bonus_b,
                form_bonus_a |-> form_bonus_a, form_bonus_b |-> form_bonus_b] :
               a \in {compute_line_ratings(team_a)},
               b \in {compute_line_ratings(team_b)} })

(***************************************************************************)
(* Bounds of the exploration.  A Poisson draw has no upper limit and the   *)
(* series length is the caller's.  The model explores the MaxScorelines    *)
(* lowest scorelines, counted by total goals and then by the goals of side *)
(* B: 0:0, 1:0, 0:1, 2:0, 1:1, 0:2, 3:0, ...; series of at most MaxMatches *)
(* fixtures through main and of at most MaxDirect through a direct call.   *)
(***************************************************************************)
MaxScorelines == 6

MaxMatches == 7

MaxDirect == 2

ScorelineRank(ga, gb) == ((ga + gb) * (ga + gb + 1)) \div 2 + gb + 1

(* The roster size main insists on, and the number of scorelines it lists. *)
RosterSize == 11

TopK == 5

(***************************************************************************)
(* One fixture.                                                            *)
(***************************************************************************)

(* goal_mean without the floor of 0.1. *)
goal_mean_unclamped(atk, atk_den, opp_def, def_den) ==
    LET l == Lcm(atk_den, def_den)
        diff == atk * (l \div atk_den) - opp_def * (l \div def_den)
    IN  [num |-> 26 * Unit * l + diff,
         den |-> 20 * Unit * l]

(* max(0.1, 1.3 + diff * 0.05) with diff = atk - opp_def, as the fraction  *)
(* num / den: the two ratings are brought to the common denominator        *)
(* l * Unit, l the least common multiple of the two roster sizes, and the  *)
(* mean is counted in twentieths of that (0.05 = 1/20).                    *)
goal_mean(atk, atk_den, opp_def, def_den) ==
    LET l == Lcm(atk_den, def_den)
        diff == atk * (l \div atk_den) - opp_def * (l \div def_den)
    IN  [num |-> Max(2 * Unit * l, 26 * Unit * l + diff),
         den |-> 20 * Unit * l]

(* The goal counts poisson_sample can return for a mean: the loop runs at  *)
(* least once and any number of draws can be needed, so every count k - 1  *)
(* >= 0 is possible whatever the mean; no explored scoreline has a count   *)
(* above MaxScorelines.                                                    *)
poisson_sample(lmbda) == 0..MaxScorelines

lambdas(team_a, team_b) ==
    Only({ [a |-> goal_mean(e.atk_a, e.den_a, e.def_b, e.den_b),
            b |-> goal_mean(e.atk_b, e.den_b, e.def_a, e.den_a)] :
           e \in {compute_effective_strengths(team_a, team_b)} })

(* The results simulate_single_match can return, with the two means it     *)
(* drew them from.                                                         *)
simulate_single_match(team_a, team_b) ==
    UNION { { [lambda_a |-> lam.a, lambda_b |-> lam.b,
               goals_a |-> g[1], goals_b |-> g[2]] :
                g \in { h \in poisson_sample(lam.a) \X poisson_sample(lam.b) :
                          ScorelineRank(h[1], h[2]) <= MaxScorelines } } :
            lam \in {lambdas(team_a, team_b)} }

(***************************************************************************)
(* The series.  scores is the dict of simulate_series: a sequence of       *)
(* [key, cnt] in insertion order, which is the order a Python dict keeps   *)
(* and items() returns.                                                    *)
(***************************************************************************)
KeyIndex(scores, key) ==
    IF \E k \in 1..Len(scores) : scores[k].key = key
    THEN CHOOSE k \in 1..Len(scores) : scores[k].key = key
    ELSE 0

(* tally_score that stores 1 instead of the old count plus 1. *)
tally_score_overwrite(scores, key) ==
    LET k == KeyIndex(scores, key)
    IN  IF k = 0 THEN Append(scores, [key |-> key, cnt |-> 1])
        ELSE [scores EXCEPT ![k].cnt = 1]

(* scores[(ga, gb)] = scores.get((ga, gb), 0) + 1 *)
tally_score(scores, key) ==
    LET k == KeyIndex(scores, key)
    IN  IF k = 0 THEN Append(scores, [key |-> key, cnt |-> 1])
        ELSE [scores EXCEPT ![k].cnt = @ + 1]

(* The if / elif / else on ga and gb: which of the three counters grows. *)
outcome(ga, gb) ==
    IF ga > gb THEN "win_a" ELSE IF gb > ga THEN "win_b" ELSE "draw"

(* sorted(items, key=lambda x: x[1], reverse=True): a stable sort, so      *)
(* items of equal count keep the order they had.  Each item is put behind  *)
(* the items already placed whose count is at least its own.               *)
(* insert_desc that puts an item before the placed items of equal count,   *)
(* as sorting ascending and reversing the list would.                      *)
RECURSIVE insert_desc_ties_first(_, _)
insert_desc_ties_first(sorted, x) ==
    IF sorted = <<>> THEN <<x>>
    ELSE IF Head(sorted).cnt > x.cnt
         THEN <<Head(sorted)>> \o insert_desc_ties_first(Tail(sorted), x)
         ELSE <<x>> \o sorted

RECURSIVE insert_desc(_, _)
insert_desc(sorted, x) ==
    IF sorted = <<>> THEN <<x>>
    ELSE IF Head(sorted).cnt >= x.cnt
         THEN <<Head(sorted)>> \o insert_desc(Tail(sorted), x)
         ELSE <<x>> \o sorted

RECURSIVE sorted_desc(_)
sorted_desc(items) ==
    IF items = <<>> THEN <<>>
    ELSE insert_desc(sorted_desc(SubSeq(items, 1, Len(items) - 1)),
                     items[Len(items)])

(* sorted(...)[:5] *)
top_scores(scores) ==
    LET s == sorted_desc(scores)
    IN  SubSeq(s, 1, IF Len(s) < TopK THEN Len(s) ELSE TopK)

(***************************************************************************)
(* Inputs.                                                                 *)
(***************************************************************************)
Skills(q, kp, tk, pa, sh, he, sp, st, pe, bc) ==
    [q |-> q, kp |-> kp, tk |-> tk, pa |-> pa, sh |-> sh,
     he |-> he, sp |-> sp, st |-> st, pe |-> pe, bc |-> bc]

MakePlayer(role, position, sk) ==
    [role |-> role, position |-> position,
     q |-> sk.q, kp |-> sk.kp, tk |-> sk.tk, pa |-> sk.pa, sh |-> sk.sh,
     he |-> sk.he, sp |-> sk.sp, st |-> sk.st, pe |-> sk.pe, bc |-> sk.bc]

Regular == Skills(50, 35, 48, 41, 46, 43, 57, 52, 30, 39)

(* POS_BY_ROLE: the positions the position box offers for a role. *)
POS_BY_ROLE(role) ==
    CASE role = "Gk" -> <<"GK">>
      [] role = "Def" -> <<"DC", "DCL", "DCR", "DL", "DR">>
      [] role = "Mid" -> <<"MC", "MCL", "MCR", "ML", "MR">>
      [] role = "Att" -> <<"ST", "STL", "STR">>

(* The role build_team preselects for the squad row idx (from 0), with the *)
(* first position of that role.                                            *)
default_role(idx) ==
    IF idx = 0 THEN "Gk"
    ELSE IF 1 <= idx /\ idx <= 4 THEN "Def"
    ELSE IF 5 <= idx /\ idx <= 8 THEN "Mid"
    ELSE "Att"

DefaultSquad(n, sk) ==
    [k \in 1..n |-> MakePlayer(default_role(k - 1),
                               POS_BY_ROLE(default_role(k - 1))[1], sk)]

(* The team stats inputs_for_team_stats preselects. *)
DefaultStats ==
    [attacking |-> 95, defending |-> 96, counter_attacking |-> 50,
     offside |-> 90, free_kick |-> 97, corner |-> 96, penalty |-> 70,
     understanding |-> 93, teamplay |-> 95]

MakeTeam(players, formation, style, pressure, stats, home) ==
    [players |-> players, formation |-> formation, style |-> style,
     pressure |-> pressure, stats |-> stats, home |-> home]

(* A team as build_team returns it with every box left as preselected and  *)
(* n squad rows ticked.                                                    *)
DefaultTeam(n) ==
    MakeTeam(DefaultSquad(n, Regular), "4-4-2", "mixed", "normal", DefaultStats, FALSE)

RosterSizes == {RosterSize - 1, RosterSize, RosterSize + 1}

(***************************************************************************)
(* Inputs of the single fixture: teams of 11 that differ in one player's   *)
(* role, position and skills, in pressure, team stats and home side, and   *)
(* teams that differ in style and formation.                               *)
(***************************************************************************)
Varied == Skills(62, 35, 48, 71, 56, 43, 67, 52, 30, 59)

Flat(v) == Skills(v, v, v, v, v, v, v, v, v, v)

ROLE_OPTIONS == {"Gk", "Def", "Mid", "Att"}

(* The default squad with its last row given another role, position and    *)
(* skills.                                                                 *)
SquadWith(role, position, sk) ==
    [DefaultSquad(RosterSize, Regular) EXCEPT
        ![RosterSize] = MakePlayer(role, position, sk)]

SquadsA ==
    UNION { { SquadWith(role, POS_BY_ROLE(role)[k], Varied) :
                k \in 1..Len(POS_BY_ROLE(role)) } : role \in ROLE_OPTIONS }
    \cup { DefaultSquad(RosterSize, Flat(0)), DefaultSquad(RosterSize, Flat(100)),
           SquadWith("Def", "dl", Varied), SquadWith("Att", "STL", Regular) }

SquadsB ==
    { DefaultSquad(RosterSize, Regular), DefaultSquad(RosterSize, Flat(0)),
      DefaultSquad(RosterSize, Flat(100)) }

StatsOf(v) ==
    [attacking |-> v, defending |-> v, counter_attacking |-> v,
     offside |-> v, free_kick |-> v, corner |-> v, penalty |-> v,
     understanding |-> v, teamplay |-> v]

StatsSet == {DefaultStats, StatsOf(0), StatsOf(80)}

(* The tokens of the three select boxes of build_team, and capitalised     *)
(* spellings of some.                                                      *)
Formations == {"4-4-2", "4-5-1", "4-3-3", "3-5-2", "3-4-3", "5-4-1"}

Styles == {"mixed", "continental", "longballs", "Mixed", "Longballs"}

Pressures == {"normal", "attacking", "defending", "counter-attacking",
              "Defending", "Counter-Attacking"}

(* "Teren": neutral, team A at home, team B at home. *)
Grounds == {<<FALSE, FALSE>>, <<TRUE, FALSE>>, <<FALSE, TRUE>>}

MatchInputs ==
    { [a |-> MakeTeam(sq, "4-4-2", "mixed", pr, st, gr[1]),
       b |-> MakeTeam(sqb, "4-4-2", "mixed", "normal", DefaultStats, gr[2])] :
        sq \in SquadsA, pr \in Pressures, st \in StatsSet, gr \in Grounds,
        sqb \in SquadsB }
    \cup
    { [a |-> MakeTeam(DefaultSquad(RosterSize, Regular), fa, sa, "normal",
                      DefaultStats, FALSE),
       b |-> MakeTeam(DefaultSquad(RosterSize, Regular), fb, sb, "normal",
                      DefaultStats, FALSE)] :
        fa \in Formations, fb \in Formations, sa \in Styles, sb \in Styles }


(***************************************************************************)
(* State.                                                                  *)
(***************************************************************************)
VARIABLES
    entry,      \* "main": the button of main; "direct": simulate_series called
                \* by other code; "match": simulate_single_match alone
    team_a, team_b,
    n_matches,  \* the series length asked for
    pc,         \* where the run is
    i,          \* fixtures simulated so far by the series loop
    win_a, draw, win_b,
    scores,     \* the tally dict, in insertion order
    result,     \* what simulate_series returned
    error,      \* the error main showed or the exception raised
    top5,       \* the scorelines main listed
    lambda_a, lambda_b,  \* the Poisson means of the last fixture
    line,       \* compute_line_ratings of both teams
    eff,        \* compute_effective_strengths
    goals,      \* the result of the single fixture
    frame       \* the locals of the poisson_sample call under way

vars == <<entry, team_a, team_b, n_matches, pc, i, win_a, draw, win_b, scores,
          result, error, top5, lambda_a, lambda_b, line, eff, goals, frame>>

NoMean == [num |-> 0, den |-> 1]
NoResult == [win_a |-> 0, draw |-> 0, win_b |-> 0, den |-> 1, scores |-> <<>>]
NoLine == [atk_a |-> 0, def_a |-> 0, den_a |-> 1, atk_b |-> 0, def_b |-> 0, den_b |-> 1]
NoEff == [atk_a |-> 0, def_a |-> 0, den_a |-> 1, atk_b |-> 0, def_b |-> 0, den_b |-> 1,
          style_bonus_a |-> 0, style_bonus_b |-> 0,
          form_bonus_a |-> 0, form_bonus_b |-> 0]
NoFrame == [call |-> "none", lmbda |-> 0, L |-> 0, k |-> 0, p |-> 0,
            us |-> <<>>, ret |-> 0]

Blank ==
    /\ i = 0 /\ win_a = 0 /\ draw = 0 /\ win_b = 0
    /\ scores = <<>> /\ result = NoResult /\ error = "none" /\ top5 = <<>>
    /\ lambda_a = NoMean /\ lambda_b = NoMean
    /\ line = NoLine /\ eff = NoEff /\ goals = <<>>
    /\ frame = NoFrame

(* main has drawn the page: both teams built, "Broj simulacija" entered    *)
(* (a positive count; the model scales the box's range 50..5000 down to    *)
(* 1..MaxMatches), the button not yet pressed.  Or other code is about to  *)
(* call simulate_series with teams and a count of its own.                 *)
Init ==
    /\ entry \in {"main", "direct"}
    /\ \E na \in RosterSizes, nb \in RosterSizes :
          /\ team_a = DefaultTeam(na)
          /\ team_b = DefaultTeam(nb)
    /\ n_matches \in IF entry = "main" THEN 1..MaxMatches ELSE -1..MaxDirect
    /\ pc = "ready"
    /\ Blank

(***************************************************************************)
(* main, from the button on.                                               *)
(***************************************************************************)
(* roster_ok with the check of the second team left out. *)
roster_ok_first_only(ta, tb) == Len(ta.players) = RosterSize

(* Neither of the two checks of main fails. *)
roster_ok(ta, tb) ==
    Len(ta.players) = RosterSize /\ Len(tb.players) = RosterSize

(* st.button("Pokreni simulacije"): the two roster checks, each showing an *)
(* error and returning, then the call of simulate_series.                  *)
main_run ==
    /\ pc = "ready" /\ entry = "main"
    /\ IF ~roster_ok(team_a, team_b)
       THEN /\ pc' = "rejected"
            /\ error' = "roster"
       ELSE /\ pc' = "loop"
            /\ error' = error
    /\ UNCHANGED <<entry, team_a, team_b, n_matches, i, win_a, draw, win_b, scores,
                   result, top5, lambda_a, lambda_b, line, eff, goals, frame>>

(* simulate_series called by other code: it checks nothing. *)
direct_call ==
    /\ pc = "ready" /\ entry = "direct"
    /\ pc' = "loop"
    /\ UNCHANGED <<entry, team_a, team_b, n_matches, i, win_a, draw, win_b, scores,
                   result, error, top5, lambda_a, lambda_b, line, eff, goals, frame>>

(* One pass of "for _ in range(n_matches)": a fixture, its outcome         *)
(* counted, its scoreline tallied.                                         *)
series_step ==
    /\ pc = "loop" /\ i < n_matches
    /\ \E m \in simulate_single_match(team_a, team_b) :
          LET o == outcome(m.goals_a, m.goals_b)
          IN  /\ win_a' = IF o = "win_a" THEN win_a + 1 ELSE win_a
              /\ win_b' = IF o = "win_b" THEN win_b + 1 ELSE win_b
              /\ draw' = IF o = "draw" THEN draw + 1 ELSE draw
              /\ scores' = tally_score(scores, <<m.goals_a, m.goals_b>>)
              /\ lambda_a' = m.lambda_a
              /\ lambda_b' = m.lambda_b
    /\ i' = i + 1
    /\ UNCHANGED <<entry, team_a, team_b, n_matches, pc, result, error, top5,
                   line, eff, goals, frame>>

(* The return statement: 100 * count / n_matches three times; the first    *)
(* division raises ZeroDivisionError when n_matches is 0.                  *)
series_return ==
    /\ pc = "loop" /\ i >= n_matches
    /\ IF n_matches = 0
       THEN /\ pc' = "raised"
            /\ error' = "ZeroDivisionError"
            /\ result' = result
       ELSE /\ pc' = "returned"
            /\ error' = error
            /\ result' = [win_a |-> 100 * win_a, draw |-> 100 * draw,
                          win_b |-> 100 * win_b, den |-> n_matches,
                          scores |-> scores]
    /\ UNCHANGED <<entry, team_a, team_b, n_matches, i, win_a, draw, win_b, scores,
                   top5, lambda_a, lambda_b, line, eff, goals, frame>>

(* main after the call: the three metrics and, if scores is not empty,     *)
(* the five most frequent scorelines.                                      *)
main_show ==
    /\ pc = "returned" /\ entry = "main"
    /\ pc' = "shown"
    /\ top5' = IF result.scores # <<>> THEN top_scores(result.scores) ELSE <<>>
    /\ UNCHANGED <<entry, team_a, team_b, n_matches, i, win_a, draw, win_b, scores,
                   result, error, lambda_a, lambda_b, line, eff, goals, frame>>

Next ==
    \/ main_run
    \/ direct_call
    \/ series_step
    \/ series_return
    \/ main_show

Spec == Init /\ [][Next]_vars

(***************************************************************************)
(* Properties of the series and of main.                                   *)
(***************************************************************************)
CountTotal(sc) == SumSeq([k \in 1..Len(sc) |-> sc[k].cnt])

BadRoster ==
    Len(team_a.players) # RosterSize \/ Len(team_b.players) # RosterSize

(* C1: after i passes of the series loop the three outcome counters sum to *)
(* i and so do the counts of the scoreline table, no scoreline having two  *)
(* entries; and when simulate_series returns for a count N >= 1, i is N:   *)
(* the counters and the returned table's counts sum to N, and the three    *)
(* percentages (num / den) to 100.                                         *)
C1_SeriesConservation ==
    /\ win_a + draw + win_b = i
    /\ CountTotal(scores) = i
    /\ \A j, k \in 1..Len(scores) : scores[j].key = scores[k].key => j = k
    /\ (pc \in {"returned", "shown"} /\ n_matches >= 1) =>
          /\ i = n_matches
          /\ win_a + draw + win_b = n_matches
          /\ CountTotal(result.scores) = n_matches
          /\ result.win_a + result.draw + result.win_b = 100 * result.den

C1_Witness ==
    /\ pc = "returned" /\ n_matches >= 4
    /\ win_a > 0 /\ draw > 0 /\ win_b > 0
    /\ \E k \in 1..Len(result.scores) : result.scores[k].cnt >= 2

(* C2: simulate_series with a count below 1 ends in the invalid-request    *)
(* error and returns nothing.                                              *)
C2_InvalidRequestRaised ==
    (n_matches < 1 /\ pc \notin {"ready", "loop"}) =>
        (pc = "raised" /\ error = "InvalidRequestError")

(* C3 as stated: whatever the entry point, a roster that is not of 11      *)
(* players is rejected before any fixture is simulated and no result is    *)
(* produced.                                                               *)
C3_RejectedAtEveryEntry ==
    BadRoster =>
        /\ i = 0
        /\ pc \in {"ready", "rejected"}
        /\ result = NoResult

(* C3 as amended: through main, a roster that is not of 11 players is      *)
(* rejected with the roster error before any fixture is simulated and no   *)
(* result is produced: the run goes from the button to the rejection and   *)
(* nowhere else.                                                           *)
C3_MainRejectsRoster ==
    (entry = "main" /\ BadRoster) =>
        /\ i = 0 /\ scores = <<>>
        /\ pc \in {"ready", "rejected"}
        /\ pc = "rejected" => error = "roster"
        /\ result = NoResult /\ top5 = <<>>

C3_Witness ==
    /\ entry = "main" /\ pc = "rejected" /\ error = "roster"
    /\ Len(team_a.players) = RosterSize
    /\ Len(team_b.players) = RosterSize + 1

(* Where the scoreline key stands in the table (0: nowhere). *)
Place(sc, e) ==
    IF \E k \in 1..Len(sc) : sc[k] = e
    THEN CHOOSE k \in 1..Len(sc) : sc[k] = e
    ELSE 0

TopListOf(t, sc) ==
    /\ Len(t) = (IF Len(sc) < TopK THEN Len(sc) ELSE TopK)
    /\ \A k \in 1..Len(t) : Place(sc, t[k]) > 0
    /\ \A j, k \in 1..Len(t) :
          j < k => \/ t[j].cnt > t[k].cnt
                   \/ t[j].cnt = t[k].cnt /\ Place(sc, t[j]) < Place(sc, t[k])
    /\ \A m \in 1..Len(sc) :
          Place(t, sc[m]) = 0 =>
              \A k \in 1..Len(t) :
                  \/ t[k].cnt > sc[m].cnt
                  \/ t[k].cnt = sc[m].cnt /\ Place(sc, t[k]) < m

(* C10: the scorelines main lists are the min(5, size) entries of the      *)
(* returned table with the highest counts, in non-increasing order of      *)
(* count, entries of equal count in the order of the table (also across    *)
(* the cut after the fifth); and the table's order is the order of first   *)
(* encounter: a pass of the series loop keeps every entry in its place and *)
(* puts a new scoreline last.                                              *)
C10_TopScorelines ==
    /\ [](pc = "shown" => TopListOf(top5, result.scores))
    /\ [][/\ Len(scores') >= Len(scores)
          /\ Len(scores') <= Len(scores) + 1
          /\ \A k \in 1..Len(scores) : scores'[k].key = scores[k].key]_vars

C10_Witness ==
    /\ pc = "shown"
    /\ Len(result.scores) > TopK
    /\ top5[1].cnt > top5[TopK].cnt
    /\ Place(result.scores, top5[1]) > 1
    /\ \E m \in 1..Len(result.scores) :
          /\ Place(top5, result.scores[m]) = 0
          /\ result.scores[m].cnt = top5[TopK].cnt

(***************************************************************************)
(* A single fixture: simulate_single_match called once on two teams.       *)
(***************************************************************************)
InitMatch ==
    /\ entry = "match"
    /\ \E m \in MatchInputs : team_a = m.a /\ team_b = m.b
    /\ n_matches = 1
    /\ pc = "ready"
    /\ Blank

(* The call: the line ratings of both teams, the effective strengths, the  *)
(* two means and the two draws.                                            *)
single_match ==
    /\ pc = "ready" /\ entry = "match"
    /\ \E la \in {compute_line_ratings(team_a)}, lb \in {compute_line_ratings(team_b)} :
          line' = [atk_a |-> la.atk, def_a |-> la.deff, den_a |-> la.den,
                   atk_b |-> lb.atk, def_b |-> lb.deff, den_b |-> lb.den]
    /\ eff' = compute_effective_strengths(team_a, team_b)
    /\ \E m \in simulate_single_match(team_a, team_b) :
          /\ lambda_a' = m.lambda_a
          /\ lambda_b' = m.lambda_b
          /\ goals' = <<m.goals_a, m.goals_b>>
    /\ pc' = "played"
    /\ UNCHANGED <<entry, team_a, team_b, n_matches, i, win_a, draw, win_b, scores,
                   result, error, top5, frame>>

NextMatch == single_match

SpecMatch == InitMatch /\ [][NextMatch]_vars

(***************************************************************************)
(* Properties of the ratings, the bonuses and the means.                   *)
(***************************************************************************)
Played == pc = "played"

(* The role sums as the documentation lists them, in hundredths, with the  *)
(* goalkeeper's attack given as a parameter.                               *)
ListedAtk(p, gk_atk) ==
    CASE p.role = "Att" -> 35 * p.sh + 25 * p.pa + 10 * p.kp + 15 * p.sp
                           + 5 * p.he + 10 * p.q
      [] p.role = "Mid" -> 25 * p.sh + 30 * p.pa + 15 * p.kp + 10 * p.sp
                           + 5 * p.he + 5 * p.q
      [] p.role = "Def" -> 5 * p.pa + 5 * p.he
      [] p.role = "Gk" -> gk_atk

ListedDef(p) ==
    CASE p.role = "Att" -> 15 * p.tk + 10 * p.bc + 5 * p.st
      [] p.role = "Mid" -> 25 * p.tk + 10 * p.bc + 5 * p.st
      [] p.role = "Def" -> 35 * p.tk + 20 * p.he + 15 * p.st + 15 * p.bc + 5 * p.q
      [] p.role = "Gk" -> 40 * p.q + 15 * p.bc + 10 * p.st

FullBacks == {"DL", "DR", "dl"}
CentreBacks == {"DC", "DCL", "DCR"}
Wide == {"ML", "MR", "AML", "AMR", "STL", "STR"}

(* The contribution with the position taken into account, in 1/10000. *)
PositionedAtk(p) ==
    ListedAtk(p, 2 * p.pa)
        * (IF p.position \in FullBacks \cup Wide THEN 105 ELSE 100)
    + (IF p.position \in FullBacks THEN 500 * (p.sp + p.pa)
       ELSE IF p.position \in Wide THEN 500 * (p.sp + p.sh)
       ELSE 0)

PositionedDef(p) ==
    ListedDef(p)
        * (IF p.position \in FullBacks THEN 97
           ELSE IF p.position \in CentreBacks THEN 105 ELSE 100)
    + (IF p.position \in CentreBacks THEN 500 * (p.tk + p.he) ELSE 0)

(* A rating rebuilt from per-player contributions: the mean quality, 0.15  *)
(* of the mean contribution, and the team-level terms.                     *)
RatingFrom(team, contribution(_), team_terms) ==
    SumSeq([k \in 1..Len(team.players) |-> team.players[k].q]) * Unit
    + 3 * SumSeq([k \in 1..Len(team.players) |-> contribution(team.players[k])])
    + Len(team.players) * team_terms

SameRolesAndSkills(ta, tb) ==
    /\ Len(ta.players) = Len(tb.players)
    /\ \A k \in 1..Len(ta.players) :
          [ta.players[k] EXCEPT !.position = ""] = [tb.players[k] EXCEPT !.position = ""]

SameTeamTerms(ta, tb) ==
    /\ ta.stats = tb.stats /\ ta.home = tb.home /\ ta.pressure = tb.pressure

CommonDen == Lcm(eff.den_a, eff.den_b)

(* 1.3 + 0.05 * (atk - opp_def) in 1 / (20 * Unit * CommonDen). *)
RawMean(atk, atk_den, opp_def, def_den) ==
    26 * Unit * CommonDen
    + atk * (CommonDen \div atk_den) - opp_def * (CommonDen \div def_den)

(* C5: in a simulated fixture the mean of side A is max(0.1, 1.3 + 0.05 *  *)
(* (atkA - defB)) and that of side B max(0.1, 1.3 + 0.05 * (atkB - defA)), *)
(* on the effective strengths; each is at least 0.1, and a fixture whose   *)
(* raw mean is below 0.1 is played all the same, no error raised.          *)
C5_ExpectedGoals ==
    Played =>
        /\ lambda_a.den = 20 * Unit * CommonDen
        /\ lambda_b.den = 20 * Unit * CommonDen
        /\ lambda_a.num = Max(2 * Unit * CommonDen,
                              RawMean(eff.atk_a, eff.den_a, eff.def_b, eff.den_b))
        /\ lambda_b.num = Max(2 * Unit * CommonDen,
                              RawMean(eff.atk_b, eff.den_b, eff.def_a, eff.den_a))
        /\ lambda_a.num >= lambda_a.den \div 10
        /\ lambda_b.num >= lambda_b.den \div 10
        /\ error = "none" /\ Len(goals) = 2

C5_Witness ==
    /\ Played
    /\ RawMean(eff.atk_a, eff.den_a, eff.def_b, eff.den_b) < 2 * Unit * CommonDen
    /\ lambda_a.num = lambda_a.den \div 10
    /\ lambda_b.num > lambda_b.den \div 10
    /\ error = "none" /\ Len(goals) = 2

StyleOf(token) ==
    CASE token \in {"mixed", "Mixed"} -> "M"
      [] token \in {"continental", "Continental"} -> "C"
      [] token \in {"longballs", "Longballs"} -> "L"

Beats == {<<"L", "C">>, <<"C", "M">>, <<"M", "L">>}

(* C6: the style bonus of one side is minus that of the other; equal       *)
(* styles give 0; distinct styles give +2.0 to the side whose style beats  *)
(* the other's in the cycle Longballs > Continental > Mixed > Longballs    *)
(* and -2.0 to the other side.                                             *)
C6_StyleCycle ==
    Played =>
        LET x == StyleOf(team_a.style)
            y == StyleOf(team_b.style)
        IN  /\ eff.style_bonus_a = -eff.style_bonus_b
            /\ x = y => eff.style_bonus_a = 0
            /\ <<x, y>> \in Beats => eff.style_bonus_a = 2 * Unit
            /\ (x # y /\ <<x, y>> \notin Beats) => eff.style_bonus_a = -2 * Unit
            /\ x # y => <<y, x>> \in Beats \/ <<x, y>> \in Beats

C6_Witness ==
    /\ Played
    /\ team_a.style = "Longballs" /\ team_b.style = "mixed"
    /\ eff.style_bonus_a = -2 * Unit /\ eff.style_bonus_b = 2 * Unit

(* The formation table as documented: the listed ordered pairs. *)
ListedFormationBonus(my, opp) ==
    CASE my = "4-4-2" /\ opp = "3-5-2" -> Unit
      [] my = "3-5-2" /\ opp = "4-4-2" -> -Unit
      [] my = "4-5-1" /\ opp = "3-4-3" -> Unit
      [] my = "3-4-3" /\ opp = "4-5-1" -> -Unit
      [] my = "4-4-2" /\ opp = "4-3-3" -> -(Unit \div 2)
      [] my = "4-3-3" /\ opp = "4-4-2" -> Unit \div 2
      [] OTHER -> 0

(* C7: the formation bonus of each side is the tabulated value of its      *)
(* ordered pair, 0.0 for an unlisted pair and for equal formations, and    *)
(* the bonus of one side is minus that of the other.                       *)
C7_FormationTable ==
    Played =>
        /\ eff.form_bonus_a = ListedFormationBonus(team_a.formation, team_b.formation)
        /\ eff.form_bonus_b = ListedFormationBonus(team_b.formation, team_a.formation)
        /\ team_a.formation = team_b.formation => eff.form_bonus_a = 0
        /\ eff.form_bonus_a = -eff.form_bonus_b

C7_Witness ==
    /\ Played
    /\ team_a.formation = "4-3-3" /\ team_b.formation = "4-4-2"
    /\ eff.form_bonus_a = Unit \div 2 /\ eff.form_bonus_b = -(Unit \div 2)

(* C8: the ratings of a team flagged home are those of the same team not   *)
(* flagged home plus exactly 0.5 each, under every pressure; an away team  *)
(* gets nothing, and the pressure adjustment is the same either way.       *)
C8_HomeBonus ==
    Played =>
        LET away_a == compute_line_ratings([team_a EXCEPT !.home = FALSE])
            away_b == compute_line_ratings([team_b EXCEPT !.home = FALSE])
            half_a == IF team_a.home THEN (line.den_a * Unit) \div 2 ELSE 0
            half_b == IF team_b.home THEN (line.den_b * Unit) \div 2 ELSE 0
        IN  /\ line.atk_a = away_a.atk + half_a
            /\ line.def_a = away_a.deff + half_a
            /\ line.atk_b = away_b.atk + half_b
            /\ line.def_b = away_b.deff + half_b
            /\ pressure_adjust([team_a EXCEPT !.home = TRUE])
                  = pressure_adjust([team_a EXCEPT !.home = FALSE])

C8_Witness ==
    /\ Played
    /\ team_a.home /\ ~team_b.home
    /\ team_a.pressure = "counter-attacking"
    /\ team_a.stats.counter_attacking = 80
    /\ line.def_a = compute_line_ratings([team_a EXCEPT !.home = FALSE]).deff
                    + (line.den_a * Unit) \div 2

(* C9: against the same team under normal pressure, attacking pressure     *)
(* moves the ratings by +1.0 and -0.5, defending by -0.5 and +1.0,         *)
(* counter-attacking by +0.5 * (CounterAttacking - 50) / 50 and +0.2, and  *)
(* normal by nothing, for every pressure token of the select box.          *)
C9_PressureAdjustment ==
    Played =>
        LET normal == compute_line_ratings([team_a EXCEPT !.pressure = "normal"])
            d_atk == line.atk_a - normal.atk
            d_def == line.def_a - normal.deff
            one == line.den_a * Unit
            pr == team_a.pressure
        IN  /\ pr \in {"normal", "attacking", "defending", "counter-attacking",
                       "Defending", "Counter-Attacking"}
            /\ pr = "normal" => d_atk = 0 /\ d_def = 0
            /\ pr = "attacking" => d_atk = one /\ d_def = -(one \div 2)
            /\ pr \in {"defending", "Defending"} =>
                  d_atk = -(one \div 2) /\ d_def = one
            /\ pr \in {"counter-attacking", "Counter-Attacking"} =>
                  /\ 100 * d_atk = (team_a.stats.counter_attacking - 50) * one
                  /\ 5 * d_def = one

C9_Witness ==
    /\ Played
    /\ team_a.pressure = "counter-attacking"
    /\ team_a.stats.counter_attacking = 0
    /\ 2 * (line.atk_a
            - compute_line_ratings([team_a EXCEPT !.pressure = "normal"]).atk)
         = -(line.den_a * Unit)

(***************************************************************************)
(* poisson_sample, draw by draw.  A mean is counted in hundredths, exp in  *)
(* units of 1 / ExpScale, and a uniform draw is one of the DrawLevels      *)
(* values j / DrawLevels, 0 <= j < DrawLevels, of [0, 1).  After k draws   *)
(* the product p is a whole number of DrawLevels^k-ths and frame.p holds   *)
(* that number; with DrawLevels a power of two and this few draws the      *)
(* double holds the same product exactly.  A call is followed for at most  *)
(* MaxDraws draws.                                                         *)
(***************************************************************************)
MaxDraws == 4

DrawLevels == 4

ExpScale == 100000

(* The floor of poisson_sample on its mean, 0.01, and the floor of         *)
(* simulate_single_match on the means it computes, 0.1.                    *)
MinMean == 1

LeastMean == 10

RECURSIVE Pow(_, _)
Pow(b, n) == IF n = 0 THEN 1 ELSE b * Pow(b, n - 1)

RECURSIVE Product(_)
Product(s) == IF s = <<>> THEN 1 ELSE Head(s) * Product(Tail(s))

(* math.exp(-m / 100), rounded down to a multiple of 1 / ExpScale, for the *)
(* means of the exploration; math.exp(-800.0) is 0.0, the double below the *)
(* smallest positive one.  No product of at most MaxDraws + 1 draws lies   *)
(* between a rounded value and the double it stands for.                   *)
ExpNeg(m) ==
    CASE m = 1 -> 99004
      [] m = 10 -> 90483
      [] m = 130 -> 27253
      [] m = 200 -> 13533
      [] m = 300 -> 4978
      [] m = 80000 -> 0

(* The means of a fixture, simulate_single_match's lambda_a and lambda_b:  *)
(* the floor 0.1, the 1.3 of level teams, and two above.                   *)
MatchMeans == {LeastMean, 130, 200, 300}

(* The means other code may pass: nothing but a float is asked for. *)
DirectMeans == {0, LeastMean, 300, 80000}

(* "p > L" for the product n / DrawLevels^k. *)
above(n, k, l) == n * ExpScale > l * Pow(DrawLevels, k)

(* poisson_sample returning the number of draws. *)
poisson_result_count(k) == k

(* "return k - 1". *)
poisson_result(k) == k - 1

(* simulate_single_match has computed its two means; or other code is      *)
(* about to call poisson_sample.                                           *)
InitSample ==
    /\ entry \in {"draws", "sample"}
    /\ team_a = DefaultTeam(RosterSize)
    /\ team_b = DefaultTeam(RosterSize)
    /\ n_matches = 1
    /\ pc = "ready"
    /\ i = 0 /\ win_a = 0 /\ draw = 0 /\ win_b = 0
    /\ scores = <<>> /\ result = NoResult /\ error = "none" /\ top5 = <<>>
    /\ IF entry = "draws"
       THEN \E ma \in MatchMeans, mb \in MatchMeans :
               /\ lambda_a = [num |-> ma, den |-> 100]
               /\ lambda_b = [num |-> mb, den |-> 100]
       ELSE lambda_a = NoMean /\ lambda_b = NoMean
    /\ line = NoLine /\ eff = NoEff /\ goals = <<>>
    /\ frame = NoFrame

(* The entry of poisson_sample: L, k = 0, p = 1.0. *)
poisson_enter(who, m) ==
    /\ frame' = [call |-> who, lmbda |-> m, L |-> ExpNeg(Max(m, MinMean)),
                 k |-> 0, p |-> 1, us |-> <<>>, ret |-> 0]
    /\ pc' = "while"
    /\ UNCHANGED <<entry, team_a, team_b, n_matches, i, win_a, draw, win_b,
                   scores, result, error, top5, lambda_a, lambda_b, line,
                   eff, goals>>

(* goals_a = poisson_sample(lambda_a), up to the loop. *)
call_goals_a ==
    /\ entry = "draws" /\ pc = "ready"
    /\ poisson_enter("a", lambda_a.num)

(* goals_b = poisson_sample(lambda_b), up to the loop. *)
call_goals_b ==
    /\ entry = "draws" /\ pc = "drawn_a"
    /\ poisson_enter("b", lambda_b.num)

(* poisson_sample called by other code. *)
call_sample ==
    /\ entry = "sample" /\ pc = "ready"
    /\ \E m \in DirectMeans : poisson_enter("direct", m)

(* One pass of "while p > L": k += 1, p *= random.random(). *)
poisson_loop ==
    /\ pc = "while"
    /\ above(frame.p, frame.k, frame.L)
    /\ frame.k < MaxDraws
    /\ \E u \in 0..(DrawLevels - 1) :
          frame' = [frame EXCEPT !.k = @ + 1, !.p = @ * u,
                                 !.us = Append(@, u)]
    /\ UNCHANGED <<entry, team_a, team_b, n_matches, pc, i, win_a, draw, win_b,
                   scores, result, error, top5, lambda_a, lambda_b, line,
                   eff, goals>>

(* The loop test fails: return k - 1, which simulate_single_match stores   *)
(* as goals_a or goals_b; after goals_b it returns the pair.               *)
poisson_return ==
    /\ pc = "while"
    /\ ~above(frame.p, frame.k, frame.L)
    /\ frame' = [frame EXCEPT !.ret = poisson_result(frame.k)]
    /\ goals' = IF frame.call = "direct" THEN goals
                ELSE Append(goals, poisson_result(frame.k))
    /\ pc' = CASE frame.call = "a" -> "drawn_a"
               [] frame.call = "b" -> "match_returned"
               [] frame.call = "direct" -> "returned"
    /\ UNCHANGED <<entry, team_a, team_b, n_matches, i, win_a, draw, win_b,
                   scores, result, error, top5, lambda_a, lambda_b, line, eff>>

NextSample ==
    \/ call_goals_a
    \/ call_goals_b
    \/ call_sample
    \/ poisson_loop
    \/ poisson_return

SpecSample == InitSample /\ [][NextSample]_vars

(***************************************************************************)
(* Properties of the draws.                                                *)
(***************************************************************************)
SampleReturned == pc \in {"drawn_a", "match_returned", "returned"}

(* The product of the draws s is at or below exp(-m / 100). *)
AtOrBelow(s, m) == Product(s) * ExpScale <= ExpNeg(m) * Pow(DrawLevels, Len(s))

(* C11: a call of poisson_sample with a mean of at least 0.1 that has      *)
(* returned made at least one draw and returned the number of its draws    *)
(* less one, a natural number; its last draw is the first that brought the *)
(* product of the draws to exp(-lambda) or below; and the goals a fixture  *)
(* has stored or returned are natural numbers.                             *)
C11_SampleGoals ==
    /\ (SampleReturned /\ frame.lmbda >= LeastMean) =>
          /\ Len(frame.us) >= 1
          /\ frame.ret = Len(frame.us) - 1
          /\ frame.ret \in Nat
          /\ AtOrBelow(frame.us, frame.lmbda)
          /\ \A j \in 0..(Len(frame.us) - 1) :
                ~AtOrBelow(SubSeq(frame.us, 1, j), frame.lmbda)
    /\ entry = "draws" =>
          /\ \A j \in 1..Len(goals) : goals[j] \in Nat
          /\ pc = "match_returned" => Len(goals) = 2

C11_Witness ==
    /\ entry = "draws" /\ pc = "match_returned"
    /\ frame.lmbda >= LeastMean
    /\ Len(frame.us) = 3 /\ frame.p > 0
    /\ goals[1] = 0 /\ goals[2] = 2

====
